---- MODULE Spec2Model ----
(***************************************************************************)
(* Bulk dataset import pipeline of cinesense:                              *)
(*   movies/management/commands/import_movies.py  (bulk_import_tmdb,       *)
(*                                                  _bulk_create_batch)    *)
(*   movies/services/tmdb_parser.py               (TMDBParser,             *)
(*                                                  KaggleTMDBParser)      *)
(*   movies/models.py                             (Movie)                  *)
(*                                                                         *)
(* One run of bulk_import_tmdb is a walk of the program counter pc through *)
(* the statements of the function.  KeyboardInterrupt is an asynchronous   *)
(* exception: Python can raise it between any two statements of the main   *)
(* thread, so it is an action enabled at every program point.              *)
(***************************************************************************)
EXTENDS Integers, Sequences, FiniteSets, TLC

\* ------------------------------------------------------------------ bounds
MaxFileLen == 2      \* rows / objects in the source file
MaxId      == 2      \* external ids are 1..MaxId
MaxLimit   == 2      \* --limit is drawn from 0..MaxLimit
MaxBatch   == 2      \* --batch-size is drawn from 1..MaxBatch
MaxCodes   == 3      \* genre codes in a list given to parse_genres
MaxLongFile == 3     \* rows in the file of the runs of SpecLong
MaxGroups  == 2      \* duplicated groups in a small table
MaxOver    == 1      \* duplicated groups beyond ShowFirst in a large table
MaxCopies  == 3      \* copies in the largest group of duplicates

ShowFirst  == 50     \* cleanup_dups: `for dup in duplicates[:50]`

None == "None"
NULL == -1           \* a missing id / a NULL tmdb_id column
Ids  == 1..MaxId

\* A release date: absent, text that has no year, or a date of year y.
NoDate      == [kind |-> "absent", year |-> 0]
TextDate    == [kind |-> "text", year |-> 0]
DateOf(y)   == [kind |-> "date", year |-> y]

VARIABLES
    file_format,      \* 'csv' or 'json' (result of detect_file_format)
    file,             \* the rows/objects of the source file read so far
    file_eof,         \* TRUE once the end of the file has been seen
    args,             \* limit, batch_size, skip_adult, min_popularity, ...
    source,           \* what the command finds at the file path
    use_tqdm,         \* TRUE when `from tqdm import tqdm` succeeds
    shown,            \* the number the progress display shows
    store,            \* the Movie table: rows [pk, tmdb_id, src]
    existing_ids,     \* the dedup index
    imported, skipped_existing, skipped_invalid, skipped_adult,
    skipped_unpopular, processed,
    batch,            \* pending Movie instances
    pc,               \* program point of the run
    pos,              \* rows of the file consumed by the parser in this run
    movie_data,       \* the entry pulled from the parser
    ret,              \* call site of _bulk_create_batch
    fb,               \* index of the per-record fallback loop
    \* history (not read by the program)
    run,              \* 1 in the first run of a behaviour, 2 in a later run
    store0,           \* the store when the current run started
    accepted,         \* file positions whose id was added to the index
    commits,          \* batches handed to _bulk_create_batch, in order
    interrupted,      \* program point at which KeyboardInterrupt arrived
    batch_failed,     \* a bulk_create call of this run raised
    limit_hit,        \* the loop ended by the limit check
    prev,             \* summary of the previous run
    \* the helper functions and the cleanup_dups command
    call,             \* a call of a helper: [fn, arg, out]
    table,            \* the Movie table cleanup_dups works on
    table0,           \* that table when the command started (history)
    cleanup           \* the command: options, program point, loop state

vars == <<file_format, file, file_eof, args, source, use_tqdm, shown, store,
          existing_ids, imported,
          skipped_existing, skipped_invalid, skipped_adult, skipped_unpopular,
          processed, batch, pc, pos, movie_data, ret, fb, run, store0,
          accepted, commits, interrupted, batch_failed, limit_hit, prev,
          call, table, table0, cleanup>>

counters == <<imported, skipped_existing, skipped_invalid, skipped_adult,
              skipped_unpopular, processed>>
input    == <<file_format, file, file_eof, args, source, use_tqdm>>
history  == <<run, store0, prev>>
apart    == <<call, table, table0, cleanup>>

\* ------------------------------------------------------------ source data
\* A well-formed entry with external id i (a released, popular, non-adult
\* movie with a title, a release year and votes).
GoodEntry(i) ==
    [form |-> "object", id |-> i, title |-> TRUE, original_title |-> TRUE,
     release_date |-> DateOf(1999), adult |-> FALSE, popularity |-> 1,
     status |-> "released", vote_count |-> 1, genres |-> "list",
     bad |-> FALSE]

\* Objects of the hierarchical (JSON) file: well-formed ones, an adult
\* one, an unpopular one, one without a release date, one that has only an
\* original_title and no id, and one that the storage rejects.
JsonEntries ==
    {GoodEntry(i) : i \in Ids} \cup
    { [GoodEntry(1) EXCEPT !.adult = TRUE],
      [GoodEntry(1) EXCEPT !.popularity = 0],
      [GoodEntry(1) EXCEPT !.release_date = NoDate],
      [GoodEntry(1) EXCEPT !.id = NULL, !.title = FALSE],
      [GoodEntry(MaxId) EXCEPT !.bad = TRUE] }

\* Rows of the tabular (CSV) file: well-formed ones, one that is not
\* released, and one that the storage rejects.
CsvEntries ==
    {GoodEntry(i) : i \in Ids} \cup
    { [GoodEntry(1) EXCEPT !.status = "rumored"],
      [GoodEntry(MaxId) EXCEPT !.bad = TRUE] }

EntriesOf(fmt) == IF fmt = "csv" THEN CsvEntries ELSE JsonEntries

\* More lines of a hierarchical file: text that json.loads cannot decode,
\* text that decodes to a value that is not an object, objects without any
\* title, with an original_title only, and with a release date that has no
\* year or a year outside 1888..2100.
MoreJsonEntries ==
    { [GoodEntry(1) EXCEPT !.form = "garbage"],
      [GoodEntry(1) EXCEPT !.form = "scalar"],
      [GoodEntry(1) EXCEPT !.title = FALSE, !.original_title = FALSE],
      [GoodEntry(1) EXCEPT !.title = FALSE],
      [GoodEntry(1) EXCEPT !.release_date = TextDate],
      [GoodEntry(1) EXCEPT !.release_date = DateOf(1800)] }

\* More rows of a tabular file: too few votes, low popularity, no title,
\* no usable release year, no id, and a genres column that neither
\* json.loads nor ast.literal_eval decodes ("garbage": literal_eval raises
\* ValueError or SyntaxError; "unhashable": a text such as {[1]: 2}, on
\* which literal_eval raises TypeError).
MoreCsvEntries ==
    { [GoodEntry(1) EXCEPT !.vote_count = 0],
      [GoodEntry(1) EXCEPT !.popularity = 0],
      [GoodEntry(1) EXCEPT !.title = FALSE, !.original_title = FALSE],
      [GoodEntry(1) EXCEPT !.release_date = NoDate],
      [GoodEntry(1) EXCEPT !.release_date = DateOf(1800)],
      [GoodEntry(1) EXCEPT !.id = NULL],
      [GoodEntry(1) EXCEPT !.genres = "garbage"],
      [GoodEntry(1) EXCEPT !.genres = "unhashable"] }

AllEntriesOf(fmt) ==
    EntriesOf(fmt) \cup (IF fmt = "csv" THEN MoreCsvEntries ELSE MoreJsonEntries)

\* Command-line options (Command.add_arguments / _handle_bulk_import).
ArgsSet ==
    [limit : 0..MaxLimit, batch_size : 1..MaxBatch, skip_adult : {TRUE},
     min_popularity : {1}, min_votes : {1}, only_released : {TRUE}]

\* Rows that are in the table before the first run: one imported earlier
\* and one created without an external id (OMDB import, sample data).
PreRow(k, i) == [pk |-> k, tmdb_id |-> i, src |-> 0]
StoreChoices == { {}, {PreRow(1, 1), PreRow(2, NULL)} }

\* ------------------------------------------------------------ the parsers
\* TMDBParser.parse_release_year / KaggleTMDBParser._parse_year
\* (the year, or NULL for None)
parse_release_year(release_date) ==
    IF release_date.kind # "date" THEN NULL
    ELSE IF 1888 <= release_date.year /\ release_date.year <= 2100
         THEN release_date.year
    ELSE NULL

\* TMDBParser._is_valid_movie:
\*   isinstance(movie, dict) and movie.get('id') is not None
\*   and movie.get('title') or movie.get('original_title')
\* `and` binds tighter than `or`; on a value that is not a dict the right
\* operand of `or` is evaluated and movie.get raises AttributeError.
IsValidMovie(movie) ==
    IF movie.form # "object" THEN "raise"
    ELSE IF (movie.id # NULL /\ movie.title) \/ movie.original_title
         THEN "yield" ELSE "skip"

\* The Movie(**fields) instance built from an entry at file position p
\* (genres: TRUE when the instance carries genre names).
Fields(e, p) ==
    [tmdb_id |-> e.id, src |-> p, bad |-> e.bad, genres |-> e.genres = "list"]

\* TMDBParser.movie_to_django_fields: "None" (no title, no valid year),
\* "raise" (int(movie_data['id']) on a missing id), or "fields".
movie_to_django_fields(m) ==
    IF ~(m.title \/ m.original_title) THEN "None"
    ELSE IF parse_release_year(m.release_date) = NULL THEN "None"
    ELSE IF m.id = NULL THEN "raise"
    ELSE "fields"

\* KaggleTMDBParser._parse_json_field on the text of a sub-structure column:
\* the decoded value, "None" when both decoders fail with an exception the
\* function catches, "raise" when ast.literal_eval raises another one.
parse_json_field(value) ==
    CASE value = "list"       -> "list"
      [] value = "garbage"    -> "None"
      [] value = "unhashable" -> "raise"

\* KaggleTMDBParser._row_to_movie: "None", "fields", or "raise" when the
\* extraction of a sub-structure column raises.
RowToMovie(row, only_released, min_votes) ==
    IF only_released /\ row.status # "released" THEN "None"
    ELSE IF min_votes > 0 /\ row.vote_count < min_votes THEN "None"
    ELSE IF ~(row.title \/ row.original_title) THEN "None"
    ELSE IF parse_release_year(row.release_date) = NULL THEN "None"
    ELSE IF row.id = NULL \/ row.id = 0 THEN "None"
    ELSE IF parse_json_field(row.genres) = "raise" THEN "raise"
    ELSE "fields"

\* What one step of the parser's generator does with the next row or line:
\* "yield" it, "skip" it, or "raise".  A line that json.loads cannot decode
\* is passed over by the line loops (tmdb_parser.py lines 135-143, 162-173,
\* 182-196).
ParserOutcome(fmt, e, a) ==
    IF fmt = "csv"
    THEN CASE RowToMovie(e, a.only_released, a.min_votes) = "None"   -> "skip"
           [] RowToMovie(e, a.only_released, a.min_votes) = "raise"  -> "raise"
           [] RowToMovie(e, a.only_released, a.min_votes) = "fields" -> "yield"
    ELSE IF e.form = "garbage" THEN "skip"
    ELSE IsValidMovie(e)

\* -------------------------------------------------------------- the store
Max(S) == CHOOSE x \in S : \A y \in S : y <= x
NextPk(st) == IF st = {} THEN 1 ELSE Max({r.pk : r \in st}) + 1

\* (variant: the column has no unique constraint)
ConflictsUnchecked(st, m) == FALSE

\* Movie.tmdb_id is unique=True: a row whose tmdb_id is already in the
\* table violates the constraint.
Conflicts(st, m) == \E r \in st : r.tmdb_id = m.tmdb_id

\* (variant: the new row takes the highest primary key in use)
InsertRowOverLast(st, m) ==
    LET k == IF st = {} THEN 1 ELSE Max({r.pk : r \in st})
    IN  {r \in st : r.pk # k}
            \cup {[pk |-> k, tmdb_id |-> m.tmdb_id, src |-> m.src]}

\* INSERT of one row: the table gains a row with the next primary key.
InsertRow(st, m) ==
    st \cup {[pk |-> NextPk(st), tmdb_id |-> m.tmdb_id, src |-> m.src]}

\* bulk_create(..., ignore_conflicts=True): conflicting rows are skipped.
RECURSIVE BulkInsert(_, _)
BulkInsert(st, b) ==
    IF b = <<>> THEN st
    ELSE BulkInsert(IF Conflicts(st, Head(b)) THEN st
                    ELSE InsertRow(st, Head(b)), Tail(b))

\* movie.save(): raises on a row the storage rejects or on a conflict
\* (the caller swallows the exception); otherwise the row is inserted.
SaveRow(st, m) ==
    IF m.bad \/ Conflicts(st, m) THEN st ELSE InsertRow(st, m)

HasBad(b) == \E k \in 1..Len(b) : b[k].bad

\* ------------------------------------------------------ helper functions
\* Text is a sequence of characters. str.lower() on the characters that
\* occur in the paths and first lines below.
Lower(c) ==
    CASE c = "C" -> "c" [] c = "S" -> "s" [] c = "V" -> "v"
      [] c = "J" -> "j" [] c = "O" -> "o" [] c = "N" -> "n"
      [] c = "G" -> "g" [] c = "Z" -> "z" [] c = "I" -> "i"
      [] c = "D" -> "d" [] c = "T" -> "t" [] OTHER -> c

LowerSeq(s) == [i \in 1..Len(s) |-> Lower(s[i])]

\* str.endswith(suffix)
EndsWith(s, suffix) ==
    /\ Len(s) >= Len(suffix)
    /\ SubSeq(s, Len(s) - Len(suffix) + 1, Len(s)) = suffix

\* sub in s
Contains(s, sub) ==
    \E i \in 0..(Len(s) - Len(sub)) : SubSeq(s, i + 1, i + Len(sub)) = sub

DotCsv    == <<".", "c", "s", "v">>
DotJson   == <<".", "j", "s", "o", "n">>
DotJsonGz == <<".", "j", "s", "o", "n", ".", "g", "z">>

\* (variant: the extension is compared as written)
detect_case_sensitive(f) ==
    IF EndsWith(f.path, DotCsv) THEN "csv"
    ELSE IF EndsWith(f.path, DotJson) \/ EndsWith(f.path, DotJsonGz)
    THEN "json"
    ELSE IF /\ f.readable
            /\ Contains(f.first_line, <<",">>)
            /\ Contains(LowerSeq(f.first_line), <<"i", "d">>)
    THEN "csv"
    ELSE "json"

\* detect_file_format(file_path) on the file f = [path, readable,
\* first_line]: the extension decides; without a known extension the first
\* line is read, and the bare except turns every failure of open() or
\* readline() into the fall-through to 'json'.
detect_file_format(f) ==
    IF EndsWith(LowerSeq(f.path), DotCsv) THEN "csv"
    ELSE IF \/ EndsWith(LowerSeq(f.path), DotJson)
            \/ EndsWith(LowerSeq(f.path), DotJsonGz)
    THEN "json"
    ELSE IF /\ f.readable
            /\ Contains(f.first_line, <<",">>)
            /\ Contains(LowerSeq(f.first_line), <<"i", "d">>)
    THEN "csv"
    ELSE "json"

\* Paths the function is called with: known extensions in several
\* spellings, extensions that only resemble them, and none.
Paths ==
    { <<"a", ".", "c", "s", "v">>, <<"a", ".", "C", "S", "V">>,
      <<"a", ".", "C", "s", "v">>, <<".", "c", "s", "v">>,
      <<"a", ".", "j", "s", "o", "n">>, <<"a", ".", "J", "S", "O", "N">>,
      <<"a", ".", "j", "s", "o", "n", ".", "g", "z">>,
      <<"a", ".", "J", "S", "O", "N", ".", "G", "Z">>,
      <<"a", ".", "c", "s", "v", ".", "g", "z">>,
      <<"a", ".", "j", "s", "o", "n", "l">>,
      <<"a", ".", "t", "s", "v">>, <<"a", ".", "g", "z">>,
      <<"c", "s", "v">>, <<"a">> }

\* First lines of the file at the path: a header row, a header row in
\* capitals, a header row without an id column, a semicolon-separated
\* header, the start of a JSON array, a JSON object on one line, a line
\* with the letters "id" inside another word, and the empty file.
FirstLines ==
    { <<"i", "d", ",", "t">>, <<"I", "D", ",", "T">>, <<"t", ",", "y">>,
      <<"i", "d", ";", "t">>, <<"[">>,
      <<"{", "\"", "i", "d", "\"", ":", "1", ",", "\"", "t", "\"", "}">>,
      <<"v", "i", "d", "e", "o", ",", "t">>, <<>> }

\* The files detect_file_format can be pointed at; one that cannot be
\* opened or decoded has no first line.
Files ==
    [path : Paths, readable : {TRUE}, first_line : FirstLines]
        \cup [path : Paths, readable : {FALSE}, first_line : {<<>>}]

\* TMDBParser.GENRE_MAP
GENRE_MAP ==
    (28 :> "Action") @@ (12 :> "Adventure") @@ (16 :> "Animation")
    @@ (35 :> "Comedy") @@ (80 :> "Crime") @@ (99 :> "Documentary")
    @@ (18 :> "Drama") @@ (10751 :> "Family") @@ (14 :> "Fantasy")
    @@ (36 :> "History") @@ (27 :> "Horror") @@ (10402 :> "Music")
    @@ (9648 :> "Mystery") @@ (10749 :> "Romance")
    @@ (878 :> "Science Fiction") @@ (10770 :> "TV Movie")
    @@ (53 :> "Thriller") @@ (10752 :> "War") @@ (37 :> "Western")

\* ', '.join(names): the pieces of the resulting text, names and
\* separators in turn; no piece at all is the empty string.
RECURSIVE Join(_)
Join(names) ==
    IF Len(names) <= 1 THEN names
    ELSE <<names[1], ", ">> \o Join(Tail(names))

\* The loop of parse_genres over genre_ids, appending to genre_names.
RECURSIVE GenreNames(_, _)
GenreNames(genre_ids, genre_names) ==
    IF genre_ids = <<>> THEN genre_names
    ELSE GenreNames(Tail(genre_ids),
                    IF Head(genre_ids) \in DOMAIN GENRE_MAP
                    THEN Append(genre_names, GENRE_MAP[Head(genre_ids)])
                    ELSE genre_names)

\* (variant: parse_genres builds the list back to front)
parse_genres_reversed(g) ==
    IF ~g.present \/ g.ids = <<>> THEN <<>>
    ELSE LET names == GenreNames(g.ids, <<>>)
         IN  Join([i \in 1..Len(names) |-> names[Len(names) + 1 - i]])

\* parse_genres(genre_ids) for g = [present, ids]: ids is the list, and
\* present is FALSE when None is passed instead of a list.
parse_genres(g) ==
    IF ~g.present \/ g.ids = <<>> THEN <<>>
    ELSE Join(GenreNames(g.ids, <<>>))

\* Genre codes the lists are made of: some of the table, and two that are
\* not in it.
SomeCodes == {28, 12, 878, 10770, 0, 99999}

RECURSIVE SeqsUpTo(_, _)
SeqsUpTo(S, n) ==
    IF n = 0 THEN {<<>>}
    ELSE LET shorter == SeqsUpTo(S, n - 1)
         IN  shorter \cup {Append(s, x) : s \in shorter, x \in S}

\* The arguments of parse_genres: lists of at most MaxCodes codes, and None.
GenreArgs ==
    [present : {TRUE}, ids : SeqsUpTo(SomeCodes, MaxCodes)]
        \cup {[present |-> FALSE, ids |-> <<>>]}

\* Movie: max_length of the text columns.
ColumnLimit ==
    [title |-> 255, genres |-> 500, poster_path |-> 500, imdb_id |-> 20,
     imdb_votes |-> 50, director |-> 500, writer |-> 500, actors |-> 1000,
     released |-> 50, language |-> 200, country |-> 200, box_office |-> 50,
     production |-> 200]

TextFields == DOMAIN ColumnLimit

\* len(s[:cut]) for a text s of n characters
Slice(n, cut) == IF n < cut THEN n ELSE cut

\* The slices _row_to_movie applies to the text values of its result.
RowSlices ==
    [title |-> 255, genres |-> 500, poster_path |-> 500, imdb_id |-> 50,
     imdb_votes |-> 100, director |-> 500, writer |-> 500, actors |-> 1000,
     released |-> 100, language |-> 200, country |-> 200, box_office |-> 100,
     production |-> 500]

\* The length of the text field in the dict _row_to_movie returns when
\* the value built from the row has n characters.
RowToMovieText(field, n) == Slice(n, RowSlices[field])

\* The length of the text field in the dict movie_to_django_fields returns
\* when the value taken from the object has n characters: four fields are
\* sliced, released is the release_date as it came, the others are ''.
DjangoFieldsText(field, n) ==
    CASE field = "title" -> Slice(n, 255)
      [] field \in {"genres", "poster_path"} -> Slice(n, 500)
      [] field = "language" -> Slice(n, 200)
      [] field = "released" -> n
      [] OTHER -> 0

\* Lengths of the source value tried for a field: empty, short, and one
\* character either side of the column's limit and of each slice.
LengthsFor(field) ==
    {0, 1, ColumnLimit[field], ColumnLimit[field] + 1,
     RowSlices[field], RowSlices[field] + 1}

\* The calls under examination: the function, its argument, and its
\* result once it has returned.
NoCall == [fn |-> None, state |-> "none"]
DetectCalls ==
    {[fn |-> "detect_file_format", arg |-> f, out |-> None,
      state |-> "called"] : f \in Files}
GenreCalls ==
    {[fn |-> "parse_genres", arg |-> g, out |-> <<>>,
      state |-> "called"] : g \in GenreArgs}
TextCalls ==
    {[fn |-> fn, arg |-> [field |-> fld, n |-> n], out |-> 0,
      state |-> "called"] :
        fn \in {"_row_to_movie", "movie_to_django_fields"},
        fld \in TextFields, n \in UNION {LengthsFor(x) : x \in TextFields}}

\* ---------------------------------------------------------------- Init
\* What the command can find at the file path: a readable file, no file, a
\* file that cannot be opened or read, or (with --download) a download
\* that fails.
Sources == {"ok", "missing", "unreadable", "download_failed"}

\* The variables of bulk_import_tmdb when the program point p is entered,
\* with the file in one of the conditions srcs and tqdm importable or not
\* as bars says.
ImportStart(p, srcs, bars) ==
    /\ source \in srcs
    /\ use_tqdm \in bars
    /\ shown = 0
    /\ file_format \in {"csv", "json"}
    /\ file = <<>>
    /\ file_eof = FALSE
    /\ args \in ArgsSet
    /\ store \in StoreChoices
    /\ existing_ids = {}
    /\ imported = 0 /\ skipped_existing = 0 /\ skipped_invalid = 0
    /\ skipped_adult = 0 /\ skipped_unpopular = 0 /\ processed = 0
    /\ batch = <<>>
    /\ pc = p
    /\ pos = 0
    /\ movie_data = [entry |-> GoodEntry(1), p |-> 0]
    /\ ret = None
    /\ fb = 0
    /\ run = 1
    /\ store0 = store
    /\ accepted = <<>>
    /\ commits = <<>>
    /\ interrupted = None
    /\ batch_failed = FALSE
    /\ limit_hit = FALSE
    /\ prev = [run |-> 0]

\* cleanup_dups before it is invoked.
NoCommand == [pc |-> "idle"]

\* The state in which the program point p is entered: the import as
\* above, no helper call under examination and no cleanup_dups running.
Start(p, srcs, bars) ==
    /\ ImportStart(p, srcs, bars)
    /\ call = NoCall
    /\ table = {}
    /\ table0 = {}
    /\ cleanup = NoCommand

\* bulk_import_tmdb is entered with a readable file and tqdm installed.
Init == Start("init", {"ok"}, {TRUE})

\* The command is invoked: _handle_bulk_import is entered.
InitCommand == Start("handle", Sources, {TRUE})

\* bulk_import_tmdb is entered with a readable file, with or without tqdm.
InitProgress == Start("init", {"ok"}, BOOLEAN)

\* (variant: the command does not look for the file before the import)
HandleWithoutCheck ==
    /\ pc = "handle"
    /\ pc' = IF source = "download_failed" THEN "Refused" ELSE "init"
    /\ UNCHANGED <<input, store, existing_ids, counters, batch, pos,
                   movie_data, ret, fb, history, apart,
                   shown, accepted, commits,
                   interrupted, batch_failed, limit_hit>>

\* Command._handle_bulk_import, lines 590-637: a failed download and a
\* missing file end the command with a message; otherwise bulk_import_tmdb
\* is called.
HandleBulkImport ==
    /\ pc = "handle"
    /\ pc' = IF source \in {"download_failed", "missing"} THEN "Refused"
             ELSE "init"
    /\ UNCHANGED <<input, store, existing_ids, counters, batch, pos,
                   movie_data, ret, fb, history, apart,
                   shown, accepted, commits,
                   interrupted, batch_failed, limit_hit>>

\* ------------------------------------------------------------- the run
\* (variant: the dedup index is not seeded from the table)
SeedNothing ==
    /\ pc = "init"
    /\ existing_ids' = {}
    /\ imported' = 0 /\ skipped_existing' = 0 /\ skipped_invalid' = 0
    /\ skipped_adult' = 0 /\ skipped_unpopular' = 0 /\ processed' = 0
    /\ batch' = <<>>
    /\ pc' = "next"
    /\ UNCHANGED <<input, store, pos, movie_data, ret, fb, history, apart,
                   shown, accepted,
                   commits, interrupted, batch_failed, limit_hit>>

\* Lines 94-120: seed the dedup index from the table, reset the counters,
\* create the parser.
Seed ==
    /\ pc = "init"
    /\ existing_ids' = {r.tmdb_id : r \in {x \in store : x.tmdb_id # NULL}}
    /\ imported' = 0 /\ skipped_existing' = 0 /\ skipped_invalid' = 0
    /\ skipped_adult' = 0 /\ skipped_unpopular' = 0 /\ processed' = 0
    /\ batch' = <<>>
    /\ pc' = "next"
    /\ UNCHANGED <<input, store, pos, movie_data, ret, fb, history, apart,
                   shown, accepted,
                   commits, interrupted, batch_failed, limit_hit>>

\* (variant: the limit check counts the records of the pending batch)
ReadRowCountingPending(e) ==
    /\ pos' = pos + 1
    /\ LET out == ParserOutcome(file_format, e, args) IN
       CASE out = "skip" ->
               /\ pc' = "next"
               /\ UNCHANGED <<movie_data, processed, limit_hit, shown>>
         [] out = "raise" ->
               /\ pc' = "Crashed"
               /\ UNCHANGED <<movie_data, processed, limit_hit, shown>>
         [] out = "yield" ->
               \* lines 122-132: the tqdm wrapper hands the entry on and
               \* counts it
               /\ shown' = IF use_tqdm THEN shown + 1 ELSE shown
               /\ IF imported + Len(batch) >= args.limit
                  THEN /\ pc' = "final"
                       /\ limit_hit' = TRUE
                       /\ UNCHANGED <<movie_data, processed>>
                  ELSE /\ pc' = "body"
                       /\ movie_data' = [entry |-> e, p |-> pos + 1]
                       /\ processed' = processed + 1
                       /\ UNCHANGED limit_hit

\* The row at position pos+1 of the file is e: the generator of the parser
\* handles it, and when it yields, the loop head (lines 143-148) checks the
\* limit and counts the entry.
ReadRow(e) ==
    /\ pos' = pos + 1
    /\ LET out == ParserOutcome(file_format, e, args) IN
       CASE out = "skip" ->
               /\ pc' = "next"
               /\ UNCHANGED <<movie_data, processed, limit_hit, shown>>
         [] out = "raise" ->
               /\ pc' = "Crashed"
               /\ UNCHANGED <<movie_data, processed, limit_hit, shown>>
         [] out = "yield" ->
               \* lines 122-132: the tqdm wrapper hands the entry on and
               \* counts it
               /\ shown' = IF use_tqdm THEN shown + 1 ELSE shown
               /\ IF imported >= args.limit
                  THEN /\ pc' = "final"
                       /\ limit_hit' = TRUE
                       /\ UNCHANGED <<movie_data, processed>>
                  ELSE /\ pc' = "body"
                       /\ movie_data' = [entry |-> e, p |-> pos + 1]
                       /\ processed' = processed + 1
                       /\ UNCHANGED limit_hit

\* for movie_data in movie_iter: one step of the parser's generator over a
\* file of at most longest rows drawn from entries.
StreamUpTo(entries, longest) ==
    /\ pc = "next"
    /\ source = "ok"
    /\ \/ /\ pos < Len(file)
          /\ ReadRow(file[pos + 1])
          /\ UNCHANGED <<file, file_eof>>
       \/ /\ pos = Len(file) /\ ~file_eof /\ Len(file) < longest
          /\ \E e \in entries :
                /\ file' = Append(file, e)
                /\ ReadRow(e)
          /\ UNCHANGED file_eof
       \/ /\ pos = Len(file)
          /\ file_eof' = TRUE
          /\ pc' = "final"
          /\ UNCHANGED <<file, pos, movie_data, processed, limit_hit, shown>>
    /\ UNCHANGED <<file_format, args, source, use_tqdm, store, existing_ids,
                   imported, skipped_existing, skipped_invalid, skipped_adult,
                   skipped_unpopular, batch, ret, fb, history, apart,
                   accepted, commits, interrupted, batch_failed>>

\* The same, over a file of at most MaxFileLen rows.
Stream(entries) == StreamUpTo(entries, MaxFileLen)

\* Rows of a longer file: well-formed ones and one that the storage rejects.
LongEntries ==
    {GoodEntry(i) : i \in Ids} \cup {[GoodEntry(1) EXCEPT !.bad = TRUE]}

\* The file is a longer one, of at most MaxLongFile rows.
StreamLong == StreamUpTo(LongEntries, MaxLongFile)

\* The file holds the entries the import is made for.
StreamNext == Stream(EntriesOf(file_format))

\* The file holds any of the entries a file of its format can hold.
StreamAny == Stream(AllEntriesOf(file_format))

\* The first step of the generator opens the file (_open_file, open,
\* pandas.read_csv); on a file that cannot be opened or read the exception
\* leaves bulk_import_tmdb, which catches KeyboardInterrupt only.
OpenFails ==
    /\ pc = "next"
    /\ source # "ok"
    /\ pc' = "Crashed"
    /\ UNCHANGED <<input, store, existing_ids, counters, batch, pos,
                   movie_data, ret, fb, history, apart,
                   shown, accepted, commits,
                   interrupted, batch_failed, limit_hit>>

\* Lines 150-182: the filters of the JSON path, the conversion to model
\* fields, and the dedup check.  Each rejection bumps its counter and
\* continues with the next entry.
Classify ==
    /\ pc = "body"
    /\ LET e == movie_data.entry
           fields == IF file_format = "csv" THEN "fields"
                     ELSE movie_to_django_fields(e)
       IN
       IF file_format # "csv" /\ args.skip_adult /\ e.adult
       THEN /\ skipped_adult' = skipped_adult + 1
            /\ pc' = "next"
            /\ UNCHANGED <<skipped_unpopular, skipped_invalid, skipped_existing>>
       ELSE IF file_format # "csv" /\ e.popularity < args.min_popularity
       THEN /\ skipped_unpopular' = skipped_unpopular + 1
            /\ pc' = "next"
            /\ UNCHANGED <<skipped_adult, skipped_invalid, skipped_existing>>
       ELSE IF fields = "raise"
       THEN /\ pc' = "Crashed"
            /\ UNCHANGED <<skipped_adult, skipped_unpopular, skipped_invalid,
                           skipped_existing>>
       ELSE IF fields = "None"
       THEN /\ skipped_invalid' = skipped_invalid + 1
            /\ pc' = "next"
            /\ UNCHANGED <<skipped_adult, skipped_unpopular, skipped_existing>>
       ELSE IF e.id \in existing_ids
       THEN /\ skipped_existing' = skipped_existing + 1
            /\ pc' = "next"
            /\ UNCHANGED <<skipped_adult, skipped_unpopular, skipped_invalid>>
       ELSE /\ pc' = "add"
            /\ UNCHANGED <<skipped_adult, skipped_unpopular, skipped_invalid,
                           skipped_existing>>
    /\ UNCHANGED <<input, store, existing_ids, imported, processed, batch,
                   pos, movie_data, ret, fb, history, apart,
                   shown, accepted, commits,
                   interrupted, batch_failed, limit_hit>>

\* (variant: the id of an accepted entry is not added to the index)
AddIdForgets ==
    /\ pc = "add"
    /\ accepted' = Append(accepted, movie_data.p)
    /\ pc' = "append"
    /\ UNCHANGED <<input, store, existing_ids, counters, batch, pos,
                   movie_data, ret, fb, history, apart,
                   shown, commits, interrupted,
                   batch_failed, limit_hit>>

\* Line 185: existing_ids.add(tmdb_id)
AddId ==
    /\ pc = "add"
    /\ existing_ids' = existing_ids \cup {movie_data.entry.id}
    /\ accepted' = Append(accepted, movie_data.p)
    /\ pc' = "append"
    /\ UNCHANGED <<input, store, counters, batch, pos, movie_data, ret, fb,
                   history, apart,
                   shown, commits, interrupted, batch_failed, limit_hit>>

\* (variant: the batch is flushed when it holds more than batch_size)
AppendBatchLate ==
    /\ pc = "append"
    /\ batch' = Append(batch, Fields(movie_data.entry, movie_data.p))
    /\ IF Len(batch') > args.batch_size
       THEN pc' = "bulk" /\ ret' = "loop"
       ELSE pc' = "next" /\ UNCHANGED ret
    /\ UNCHANGED <<input, store, existing_ids, counters, pos, movie_data, fb,
                   history, apart,
                   shown, accepted, commits, interrupted, batch_failed,
                   limit_hit>>

\* Lines 188-193: build the Movie, append it to the batch, and call
\* _bulk_create_batch when the batch is full.
AppendBatch ==
    /\ pc = "append"
    /\ batch' = Append(batch, Fields(movie_data.entry, movie_data.p))
    /\ IF Len(batch') >= args.batch_size
       THEN pc' = "bulk" /\ ret' = "loop"
       ELSE pc' = "next" /\ UNCHANGED ret
    /\ UNCHANGED <<input, store, existing_ids, counters, pos, movie_data, fb,
                   history, apart,
                   shown, accepted, commits, interrupted, batch_failed,
                   limit_hit>>

\* The statement after the call of _bulk_create_batch at each call site.
ReturnTo(site) ==
    CASE site = "loop"    -> "count"
      [] site = "final"   -> "final_count"
      [] site = "handler" -> "handler_count"

\* Lines 252-261: Movie.objects.bulk_create(batch, ignore_conflicts=True).
\* The insert runs in one transaction: it inserts every non-conflicting
\* row, or it raises and inserts nothing.  It raises when the storage
\* rejects a row of the batch, and it can raise for a reason of its own.
BulkCreate ==
    /\ pc = "bulk"
    /\ commits' = Append(commits, batch)
    /\ \/ /\ ~HasBad(batch)
          /\ store' = BulkInsert(store, batch)
          /\ pc' = ReturnTo(ret)
          /\ UNCHANGED <<fb, batch_failed>>
       \/ /\ pc' = "fallback"
          /\ fb' = 1
          /\ batch_failed' = TRUE
          /\ UNCHANGED store
    /\ UNCHANGED <<input, existing_ids, counters, batch, pos, movie_data, ret,
                   history, apart, shown, accepted, interrupted, limit_hit>>

\* (variant: the fallback loop ends at the first record that fails)
SaveUntilFailure ==
    /\ pc = "fallback"
    /\ store' = SaveRow(store, batch[fb])
    /\ IF fb < Len(batch) /\ ~batch[fb].bad
       THEN fb' = fb + 1 /\ UNCHANGED pc
       ELSE fb' = 0 /\ pc' = ReturnTo(ret)
    /\ UNCHANGED <<input, existing_ids, counters, batch, pos, movie_data, ret,
                   history, apart, shown, accepted, commits, interrupted,
                   batch_failed, limit_hit>>

\* Lines 263-267: one iteration of the per-record fallback loop.
SaveOne ==
    /\ pc = "fallback"
    /\ store' = SaveRow(store, batch[fb])
    /\ IF fb < Len(batch)
       THEN fb' = fb + 1 /\ UNCHANGED pc
       ELSE fb' = 0 /\ pc' = ReturnTo(ret)
    /\ UNCHANGED <<input, existing_ids, counters, batch, pos, movie_data, ret,
                   history, apart,
                   shown, accepted, commits, interrupted, batch_failed,
                   limit_hit>>

\* (variant: one per flushed batch instead of one per record)
CountOnePerBatch ==
    /\ pc = "count"
    /\ imported' = imported + 1
    /\ pc' = "clear"
    /\ UNCHANGED <<input, store, existing_ids, skipped_existing,
                   skipped_invalid, skipped_adult, skipped_unpopular,
                   processed, batch, pos, movie_data, ret, fb, history, apart,
                   shown,
                   accepted, commits, interrupted, batch_failed, limit_hit>>

\* Line 194: imported += len(batch)
CountImported ==
    /\ pc = "count"
    /\ imported' = imported + Len(batch)
    /\ pc' = "clear"
    /\ UNCHANGED <<input, store, existing_ids, skipped_existing,
                   skipped_invalid, skipped_adult, skipped_unpopular,
                   processed, batch, pos, movie_data, ret, fb, history, apart,
                   shown,
                   accepted, commits, interrupted, batch_failed, limit_hit>>

\* (variant: the plain progress output counts the batch once more)
ClearBatchCounting ==
    /\ pc = "clear"
    /\ batch' = <<>>
    /\ shown' = IF use_tqdm THEN shown ELSE imported
    /\ imported' = IF use_tqdm THEN imported ELSE imported + 1
    /\ pc' = "next"
    /\ UNCHANGED <<input, store, existing_ids, skipped_existing,
                   skipped_invalid, skipped_adult, skipped_unpopular,
                   processed, pos, movie_data, ret, fb, history, apart,
                   accepted, commits, interrupted, batch_failed, limit_hit>>

\* Lines 195-207: batch = [], and without tqdm the progress line, which
\* shows the imported count.
ClearBatch ==
    /\ pc = "clear"
    /\ batch' = <<>>
    /\ shown' = IF use_tqdm THEN shown ELSE imported
    /\ pc' = "next"
    /\ UNCHANGED <<input, store, existing_ids, counters, pos, movie_data, ret,
                   fb, history, apart, accepted, commits, interrupted,
                   batch_failed, limit_hit>>

\* Lines 209-211: after the loop, flush the last batch; with an empty batch
\* the run goes on to the summary (lines 221-245).
FinalBatch ==
    /\ pc = "final"
    /\ IF batch # <<>>
       THEN pc' = "bulk" /\ ret' = "final"
       ELSE pc' = "Done" /\ UNCHANGED ret
    /\ UNCHANGED <<input, store, existing_ids, counters, batch, pos,
                   movie_data, fb, history, apart,
                   shown, accepted, commits, interrupted,
                   batch_failed, limit_hit>>

\* Line 212: imported += len(batch), then the summary.
FinalCount ==
    /\ pc = "final_count"
    /\ imported' = imported + Len(batch)
    /\ pc' = "Done"
    /\ UNCHANGED <<input, store, existing_ids, skipped_existing,
                   skipped_invalid, skipped_adult, skipped_unpopular,
                   processed, batch, pos, movie_data, ret, fb, history, apart,
                   shown,
                   accepted, commits, interrupted, batch_failed, limit_hit>>

\* Program points inside the try block (lines 142-212), including the
\* calls of _bulk_create_batch made from there.
InTry ==
    \/ pc \in {"next", "body", "add", "append", "count", "clear", "final",
               "final_count"}
    \/ pc \in {"bulk", "fallback"} /\ ret \in {"loop", "final"}

\* Program points of the except block (lines 214-219).
InHandler ==
    \/ pc \in {"handler", "handler_count"}
    \/ pc \in {"bulk", "fallback"} /\ ret = "handler"

\* KeyboardInterrupt is raised in the main thread at the current program
\* point.  Inside the try block control passes to the except clause
\* (line 214); anywhere else the exception leaves bulk_import_tmdb.
KeyboardInterrupt ==
    /\ InTry \/ InHandler \/ pc = "init"
    /\ IF InTry
       THEN /\ pc' = "handler"
            /\ interrupted' = pc
       ELSE /\ pc' = "Aborted"
            /\ UNCHANGED interrupted
    /\ fb' = 0
    /\ UNCHANGED <<input, store, existing_ids, counters, batch, pos,
                   movie_data, ret, history, apart,
                   shown, accepted, commits, batch_failed,
                   limit_hit>>

\* (variant: the except clause drops the remaining batch)
HandlerNoFlush ==
    /\ pc = "handler"
    /\ pc' = "Done"
    /\ UNCHANGED <<input, store, existing_ids, counters, batch, pos,
                   movie_data, ret, fb, history, apart,
                   shown, accepted, commits,
                   interrupted, batch_failed, limit_hit>>

\* Lines 215-218: the except clause saves the remaining batch.
HandlerFlush ==
    /\ pc = "handler"
    /\ IF batch # <<>>
       THEN pc' = "bulk" /\ ret' = "handler"
       ELSE pc' = "Done" /\ UNCHANGED ret
    /\ UNCHANGED <<input, store, existing_ids, counters, batch, pos,
                   movie_data, fb, history, apart,
                   shown, accepted, commits, interrupted,
                   batch_failed, limit_hit>>

\* Line 219: imported += len(batch), then the summary.
HandlerCount ==
    /\ pc = "handler_count"
    /\ imported' = imported + Len(batch)
    /\ pc' = "Done"
    /\ UNCHANGED <<input, store, existing_ids, skipped_existing,
                   skipped_invalid, skipped_adult, skipped_unpopular,
                   processed, batch, pos, movie_data, ret, fb, history, apart,
                   shown,
                   accepted, commits, interrupted, batch_failed, limit_hit>>

Finished == pc \in {"Done", "Aborted", "Crashed", "Refused"}

\* What a finished run leaves behind for a later run to be compared with.
Summary ==
    [run |-> run, args |-> args, store0 |-> store0, store |-> store,
     pc |-> pc, imported |-> imported, limit_hit |-> limit_hit,
     interrupted |-> interrupted, commits |-> Len(commits),
     skipped_existing |-> skipped_existing,
     skipped_invalid |-> skipped_invalid, skipped_adult |-> skipped_adult,
     skipped_unpopular |-> skipped_unpopular, processed |-> processed,
     use_tqdm |-> use_tqdm]

\* Rows that were in the table before the run that starts now.
Older(st) == {[r EXCEPT !.src = 0] : r \in st}

\* A new invocation of bulk_import_tmdb (lines 40-120 up to the seeding)
\* with options a against the table st.
NewRun(a, st, summary) ==
    /\ args' = a
    /\ store' = Older(st)
    /\ store0' = Older(st)
    /\ run' = 2
    /\ prev' = summary
    /\ pc' = "init"
    /\ pos' = 0
    /\ movie_data' = [entry |-> GoodEntry(1), p |-> 0]
    /\ ret' = None
    /\ fb' = 0
    /\ batch' = <<>>
    /\ existing_ids' = {}
    /\ accepted' = <<>>
    /\ commits' = <<>>
    /\ interrupted' = None
    /\ batch_failed' = FALSE
    /\ limit_hit' = FALSE
    /\ imported' = 0 /\ skipped_existing' = 0 /\ skipped_invalid' = 0
    /\ skipped_adult' = 0 /\ skipped_unpopular' = 0 /\ processed' = 0
    /\ shown' = 0
    /\ UNCHANGED <<source, apart>>

\* The command is invoked again with the same options, on another file,
\* against the table as the earlier runs left it.
StartRun ==
    /\ Finished
    /\ \E fmt \in {"csv", "json"} :
          /\ NewRun(args, store, prev)
          /\ file_format' = fmt
          /\ file' = <<>>
          /\ file_eof' = FALSE
          /\ UNCHANGED use_tqdm

\* The command is invoked again on the same file with the same options
\* against the table as the previous run left it (resume).
RunAgain ==
    /\ Finished
    /\ run = 1
    /\ NewRun(args, store, Summary)
    /\ UNCHANGED <<file_format, file, file_eof, use_tqdm>>

\* The command is invoked on the same file with another --batch-size
\* against a table restored to what it was before the previous run (a test
\* fixture, a restored backup).
RunFromSnapshot ==
    /\ Finished
    /\ run = 1
    /\ \E b \in 1..MaxBatch :
          NewRun([args EXCEPT !.batch_size = b], store0, Summary)
    /\ UNCHANGED <<file_format, file, file_eof, use_tqdm>>

\* The command is invoked on the same file with the same options against
\* a table restored to what it was before the previous run, in an
\* environment where tqdm is installed if it was not, and not if it was.
RunOtherProgress ==
    /\ Finished
    /\ run = 1
    /\ NewRun(args, store0, Summary)
    /\ use_tqdm' = ~use_tqdm
    /\ UNCHANGED <<file_format, file, file_eof>>

\* The statements of one run without a signal.
QuietStep ==
    \/ Seed \/ StreamNext \/ Classify \/ AddId \/ AppendBatch
    \/ BulkCreate \/ SaveOne \/ CountImported \/ ClearBatch
    \/ FinalBatch \/ FinalCount

RunStep == QuietStep \/ KeyboardInterrupt \/ HandlerFlush \/ HandlerCount

Next == RunStep

\* One run of the command, with interrupts.
Spec == Init /\ [][Next]_vars

\* One run that is not suspended for ever: the interpreter goes on to the
\* next statement as long as there is one.
SpecFair == Init /\ [][Next]_vars /\ WF_vars(Next)

NextRuns == RunStep \/ StartRun

\* Any number of runs of the command, each over a file of its own, with
\* interrupts.
SpecRuns == Init /\ [][NextRuns]_vars

NextRerun == QuietStep \/ RunAgain \/ RunFromSnapshot

\* Two runs over the same file, without interrupts.
SpecRerun == Init /\ [][NextRerun]_vars

NextParse ==
    \/ Seed \/ StreamAny \/ Classify \/ AddId \/ AppendBatch
    \/ BulkCreate \/ SaveOne \/ CountImported \/ ClearBatch
    \/ FinalBatch \/ FinalCount

\* One run over a file that can hold malformed and filtered entries,
\* without interrupts.
SpecParse == Init /\ [][NextParse]_vars

NextLong ==
    \/ Seed \/ StreamLong \/ Classify \/ AddId \/ AppendBatch
    \/ BulkCreate \/ SaveOne \/ CountImported \/ ClearBatch
    \/ FinalBatch \/ FinalCount
    \/ KeyboardInterrupt \/ HandlerFlush \/ HandlerCount

\* One run over a longer file of importable rows, with interrupts.
SpecLong == Init /\ [][NextLong]_vars

NextCommand == HandleBulkImport \/ OpenFails \/ RunStep

\* One invocation of the command, from _handle_bulk_import on.
SpecCommand == InitCommand /\ [][NextCommand]_vars

NextProgress == QuietStep \/ RunOtherProgress

\* Two runs over the same file from the same table, one with the tqdm
\* bar and one with the plain progress line, without interrupts.
SpecProgress == InitProgress /\ [][NextProgress]_vars

\* ------------------------------------------------- the helpers, called
\* The variables of the import.
importing == <<input, shown, store, existing_ids, counters, batch, pc, pos,
               movie_data, ret, fb, history, accepted, commits, interrupted,
               batch_failed, limit_hit>>

\* No import is under way: bulk_import_tmdb has not been entered.
ImportAtRest ==
    /\ ImportStart("init", {"ok"}, {TRUE})
    /\ file_format = "csv"
    /\ args = [limit |-> 0, batch_size |-> 1, skip_adult |-> TRUE,
               min_popularity |-> 1, min_votes |-> 1, only_released |-> TRUE]
    /\ store = {}

\* A helper function is about to be called with one of its arguments.
InitHelpers ==
    /\ ImportAtRest
    /\ table = {}
    /\ table0 = {}
    /\ cleanup = NoCommand
    /\ \/ call \in DetectCalls
       \/ call \in GenreCalls
       \/ call \in TextCalls

\* detect_file_format(file_path) is called and returns.
DetectFileFormat ==
    /\ call.fn = "detect_file_format"
    /\ call.state = "called"
    /\ call' = [call EXCEPT !.out = detect_file_format(call.arg),
                            !.state = "returned"]
    /\ UNCHANGED <<importing, table, table0, cleanup>>

\* TMDBParser.parse_genres(genre_ids) is called and returns.
ParseGenres ==
    /\ call.fn = "parse_genres"
    /\ call.state = "called"
    /\ call' = [call EXCEPT !.out = parse_genres(call.arg),
                            !.state = "returned"]
    /\ UNCHANGED <<importing, table, table0, cleanup>>

\* _row_to_movie returns the dict of a valid row; out is the length of
\* the text field under examination.
RowToMovieTexts ==
    /\ call.fn = "_row_to_movie"
    /\ call.state = "called"
    /\ call' = [call EXCEPT !.out = RowToMovieText(call.arg.field, call.arg.n),
                            !.state = "returned"]
    /\ UNCHANGED <<importing, table, table0, cleanup>>

\* movie_to_django_fields returns the dict of a valid object; out is the
\* length of the text field under examination.
DjangoFieldsTexts ==
    /\ call.fn = "movie_to_django_fields"
    /\ call.state = "called"
    /\ call' = [call EXCEPT
                   !.out = DjangoFieldsText(call.arg.field, call.arg.n),
                   !.state = "returned"]
    /\ UNCHANGED <<importing, table, table0, cleanup>>

NextHelpers ==
    DetectFileFormat \/ ParseGenres \/ RowToMovieTexts \/ DjangoFieldsTexts

\* One call of one helper function with one argument.
SpecHelpers == InitHelpers /\ [][NextHelpers]_vars

\* ---------------------------------------------------------- cleanup_dups
\* A row of the Movie table as cleanup_dups reads it.  A NULL imdb_rating
\* is the lowest rating: SQLite sorts NULL before every number.
MovieRow(k, id, t, y) ==
    [pk |-> k, tmdb_id |-> id, title |-> t, year |-> y,
     imdb_rating |-> (k % 3) - 1, popularity |-> (2 * k) % 3]

\* A table with n groups of duplicates in the column field ("tmdb_id", or
\* "title" for title and year).  The last group has c copies, the others
\* two.  Beside them: rows whose tmdb_id is NULL, a row that shares nothing,
\* and a row with the title of the first group and another year.
TableWith(n, c, field) ==
    LET copies(g) == IF g = n THEN c ELSE 2
        pkOf(g, j) == (g - 1) * MaxCopies + j
        Copy(g, j) ==
            IF field = "tmdb_id"
            THEN MovieRow(pkOf(g, j), g, 1000 + pkOf(g, j), 2000)
            ELSE MovieRow(pkOf(g, j),
                          IF j = 1 THEN NULL ELSE 1000 + pkOf(g, j), g, 2000)
        last == n * MaxCopies
    IN  UNION { {Copy(g, j) : j \in 1..copies(g)} : g \in 1..n }
        \cup { MovieRow(last + 1, NULL, 3001, 2000),
               MovieRow(last + 2, NULL, 3002, 2000),
               MovieRow(last + 3, 3003, 3003, 2000),
               MovieRow(last + 4, 3004, 1, 1999) }

\* Numbers of duplicated groups: a few, and as many as the loop of
\* _cleanup_by_title takes, or more.
GroupCounts == (0..MaxGroups) \cup (ShowFirst..(ShowFirst + MaxOver))

Tables ==
    { TableWith(n, c, field) :
          n \in GroupCounts, c \in 2..MaxCopies, field \in {"tmdb_id", "title"} }

\* --keep
Keeps == {"first", "last", "highest-rated", "most-popular"}

\* The key of a row's group: tmdb_id, or title and year with --by-title.
KeyOf(r, by_title) ==
    IF by_title THEN 10000 * r.title + r.year ELSE r.tmdb_id

\* Movie.objects.filter(tmdb_id=...) / filter(title=..., year=...)
MoviesOf(rows, key, by_title) == {r \in rows : KeyOf(r, by_title) = key}

\* .values(...).annotate(count=Count('id')).filter(count__gt=1): the keys
\* that more than one row carries; without --by-title rows whose tmdb_id is
\* NULL are left out first.
DuplicateKeys(rows, by_title) ==
    LET among == IF by_title THEN rows
                 ELSE {r \in rows : r.tmdb_id # NULL}
    IN  { KeyOf(r, by_title) : r \in
            {x \in among : \E y \in among :
                 y.pk # x.pk /\ KeyOf(y, by_title) = KeyOf(x, by_title)} }

\* The numbers of S in ascending order.
RECURSIVE Ascending(_)
Ascending(S) ==
    IF S = {} THEN <<>>
    ELSE LET least == CHOOSE x \in S : \A y \in S : x <= y
         IN  <<least>> \o Ascending(S \ {least})

\* .order_by('-count'): the groups with the most copies first, and, where
\* the database is free, the lower key first.
RECURSIVE OrderByCount(_, _, _)
OrderByCount(keys, rows, by_title) ==
    IF keys = {} THEN <<>>
    ELSE LET most == Max({Cardinality(MoviesOf(rows, k, by_title)) :
                             k \in keys})
             top == {k \in keys :
                        Cardinality(MoviesOf(rows, k, by_title)) = most}
         IN  Ascending(top) \o OrderByCount(keys \ top, rows, by_title)

\* s[:n]
FirstOf(s, n) == SubSeq(s, 1, IF Len(s) < n THEN Len(s) ELSE n)

\* The row the keep strategy chooses among movies: order_by('id'),
\* order_by('-id'), order_by('-imdb_rating', '-id') or
\* order_by('-popularity', '-id'), and .first().
Keep(movies, strategy) ==
    CASE strategy = "first" ->
            CHOOSE r \in movies : \A o \in movies : r.pk <= o.pk
      [] strategy = "last" ->
            CHOOSE r \in movies : \A o \in movies : r.pk >= o.pk
      [] strategy = "highest-rated" ->
            CHOOSE r \in movies : \A o \in movies :
                \/ r.imdb_rating > o.imdb_rating
                \/ (r.imdb_rating = o.imdb_rating /\ r.pk >= o.pk)
      [] strategy = "most-popular" ->
            CHOOSE r \in movies : \A o \in movies :
                \/ r.popularity > o.popularity
                \/ (r.popularity = o.popularity /\ r.pk >= o.pk)

\* python manage.py cleanup_dups [--execute] [--by-title] [--keep ...] is
\* invoked on one of the tables.
InitCleanup ==
    /\ ImportAtRest
    /\ call = NoCall
    /\ table \in Tables
    /\ table0 = table
    /\ \E e, t \in BOOLEAN : \E k \in Keeps :
          cleanup = [pc |-> "handle", execute |-> e, by_title |-> t,
                     keep |-> k, duplicates |-> <<>>, i |-> 0,
                     total_dups |-> 0, deleted_count |-> 0]

\* Lines 46-68: _cleanup_by_tmdb_id finds the duplicated tmdb_ids and
\* returns when there are none.
ScanByTmdbId ==
    /\ cleanup.pc = "handle"
    /\ ~cleanup.by_title
    /\ LET found == OrderByCount(DuplicateKeys(table, FALSE), table, FALSE)
       IN  cleanup' = [cleanup EXCEPT
                          !.total_dups = Len(found),
                          !.duplicates = found,
                          !.i = 1,
                          !.pc = IF Len(found) = 0 THEN "Done" ELSE "loop"]
    /\ UNCHANGED <<importing, call, table, table0>>

\* Lines 114-137: _cleanup_by_title finds the duplicated title+year pairs,
\* returns when there are none, and loops over duplicates[:50].
ScanByTitle ==
    /\ cleanup.pc = "handle"
    /\ cleanup.by_title
    /\ LET found == OrderByCount(DuplicateKeys(table, TRUE), table, TRUE)
       IN  cleanup' = [cleanup EXCEPT
                          !.total_dups = Len(found),
                          !.duplicates = FirstOf(found, ShowFirst),
                          !.i = 1,
                          !.pc = IF Len(found) = 0 THEN "Done" ELSE "loop"]
    /\ UNCHANGED <<importing, call, table, table0>>

\* (variant: the rows are deleted without --execute too)
DeleteAlways ==
    /\ cleanup.pc = "loop"
    /\ cleanup.i <= Len(cleanup.duplicates)
    /\ LET movies == MoviesOf(table, cleanup.duplicates[cleanup.i],
                              cleanup.by_title)
           to_delete == movies \ {Keep(movies, cleanup.keep)}
       IN  /\ table' = table \ to_delete
           /\ cleanup' = [cleanup EXCEPT
                  !.deleted_count = @ + Cardinality(to_delete),
                  !.i = @ + 1]
    /\ UNCHANGED <<importing, call, table0>>

\* Lines 70-100 and 137-167, one turn of the loop: the rows of the group,
\* the one to keep, and with --execute the deletion of the others.
DeleteGroup ==
    /\ cleanup.pc = "loop"
    /\ cleanup.i <= Len(cleanup.duplicates)
    /\ LET movies == MoviesOf(table, cleanup.duplicates[cleanup.i],
                              cleanup.by_title)
           to_delete == movies \ {Keep(movies, cleanup.keep)}
       IN  /\ table' = IF cleanup.execute THEN table \ to_delete ELSE table
           /\ cleanup' = [cleanup EXCEPT
                  !.deleted_count = @ + Cardinality(to_delete),
                  !.i = @ + 1]
    /\ UNCHANGED <<importing, call, table0>>

\* Lines 102-112 and 169-182: after the loop, the report.
Report ==
    /\ cleanup.pc = "loop"
    /\ cleanup.i > Len(cleanup.duplicates)
    /\ cleanup' = [cleanup EXCEPT !.pc = "Done"]
    /\ UNCHANGED <<importing, call, table, table0>>

NextCleanup == ScanByTmdbId \/ ScanByTitle \/ DeleteGroup \/ Report

\* One invocation of cleanup_dups.
SpecCleanup == InitCleanup /\ [][NextCleanup]_vars

\* ------------------------------------------------------------ properties
StoreIds(st) == {r.tmdb_id : r \in {x \in st : x.tmdb_id # NULL}}

\* Number of rows the current run has added to the table.
Gain == Cardinality(store) - Cardinality(store0)

\* C1: after any sequence of runs (complete, limit-stopped or interrupted,
\* with or without failing batch commits) no two rows of the table carry
\* the same non-null tmdb_id.  A run only inserts rows with fresh primary
\* keys and deletes none, so an id inserted twice would show as two rows.
C1_UniqueExternalId ==
    \A r1, r2 \in store :
        (r1.tmdb_id # NULL /\ r1.tmdb_id = r2.tmdb_id) => r1 = r2

\* A second run has finished after an interrupt that made the handler
\* flush a batch that the loop had already flushed, over a file that
\* repeats an id the first run left in the table.
C1_Witness ==
    /\ run > 1 /\ pc = "Done"
    /\ interrupted \in {"count", "clear"}
    /\ Len(commits) >= 2
    /\ Gain >= 1
    /\ \E k \in 1..Len(file) : file[k].id \in StoreIds(store0)

WellFormed(e) == e.id \in Ids /\ e = GoodEntry(e.id)

\* Entries of the file whose id is in the table at the start of the run or
\* repeats the id of an earlier entry.
Repeats ==
    {k \in 1..Len(file) :
        \/ file[k].id \in StoreIds(store0)
        \/ \E j \in 1..(k - 1) : file[j].id = file[k].id}

Undisturbed == interrupted = None /\ ~batch_failed

\* C2: conservation law.  A run over N well-formed entries, with a limit
\* of at least N, no commit failure and no interrupt, of which M repeat an
\* id of the table or of an earlier entry, ends with imported = N - M and
\* skipped_existing = M.
C2_Conservation ==
    (/\ pc = "Done" /\ Undisturbed
     /\ \A k \in 1..Len(file) : WellFormed(file[k])
     /\ args.limit >= Len(file))
    => /\ imported = Len(file) - Cardinality(Repeats)
       /\ skipped_existing = Cardinality(Repeats)

C2_Witness ==
    /\ pc = "Done" /\ Undisturbed
    /\ \A k \in 1..Len(file) : WellFormed(file[k])
    /\ args.limit >= Len(file)
    /\ Len(file) >= 2
    /\ Cardinality(Repeats) >= 1
    /\ imported >= 1

\* The previous run ended with its summary, the current run has too, and
\* the current run started from the table the previous one produced, with
\* the same options (the file is the same in every run of SpecRerun).
SecondOfTwo ==
    /\ run = 2 /\ pc = "Done"
    /\ prev.pc = "Done"
    /\ prev.args = args
    /\ store0 = Older(prev.store)

\* The previous run read the whole file: neither the limit nor an
\* interrupt ended it.
PrevReadAll == ~prev.limit_hit /\ prev.interrupted = None

NoneRejected == \A k \in 1..Len(file) : ~file[k].bad

\* C3 as stated: the second of two runs with the same options over the
\* same file imports nothing and leaves the table unchanged.
C3_Idempotence ==
    SecondOfTwo => (imported = 0 /\ store = store0)

\* C3, amended: when the first run read the whole file, the second run
\* leaves the table unchanged; what it counts as imported are the records
\* of the file that the storage rejects, handed to the committer again
\* (none, and imported = 0, when the storage rejects no record).
C3_IdempotenceAfterFullRun ==
    (SecondOfTwo /\ PrevReadAll)
    => /\ store = store0
       /\ imported = Len(accepted)
       /\ \A i \in 1..Len(accepted) : file[accepted[i]].bad
       /\ NoneRejected => imported = 0

C3_Witness ==
    /\ SecondOfTwo /\ PrevReadAll /\ NoneRejected
    /\ prev.imported >= 1
    /\ Len(file) >= 2
    /\ skipped_existing >= 1
    /\ imported = 0

\* What the table holds: the external id and the source entry of each row.
Contents(st) == {<<r.tmdb_id, r.src>> : r \in st}

\* The current run and the previous one ran to their summaries on the same
\* file, from the same table, with the same options except the batch size.
SameButBatchSize ==
    /\ run = 2 /\ pc = "Done"
    /\ prev.pc = "Done"
    /\ store0 = prev.store0
    /\ [args EXCEPT !.batch_size = prev.args.batch_size] = prev.args

\* C4: batch-size invariance.  Two runs that differ only in the batch size
\* end with the same imported count and the same table contents.
C4_BatchSizeInvariance ==
    SameButBatchSize
    => /\ imported = prev.imported
       /\ Contents(store) = Contents(prev.store)

\* C5: the record limit is a maximum.  The imported count and the number
\* of rows the run has added never exceed the limit; with limit 0 nothing
\* is imported.
C5_LimitIsMaximum ==
    /\ imported <= args.limit
    /\ Gain <= args.limit
    /\ args.limit = 0 => (imported = 0 /\ store = store0)

Accepted == {accepted[i] : i \in 1..Len(accepted)}

\* The run has ended after an interrupt that arrived between two records,
\* when fewer records than a batch had been accepted (nothing committed).
InterruptedBeforeFirstBatch ==
    /\ pc = "Done"
    /\ interrupted = "next"
    /\ Len(accepted) < args.batch_size

\* C6 as stated: the run still commits exactly the K accepted records: the
\* table gains exactly K rows and imported = K.
C6_InterruptCommitsK ==
    InterruptedBeforeFirstBatch
    => (imported = Len(accepted) /\ Gain = Len(accepted))

\* C6, amended: imported = K, and the table gains exactly those of the K
\* accepted records that the storage does not reject.
C6_InterruptCommitsAcceptable ==
    InterruptedBeforeFirstBatch
    => /\ imported = Len(accepted)
       /\ \A p \in Accepted : ~file[p].bad <=> (\E r \in store : r.src = p)
       /\ Gain = Cardinality({p \in Accepted : ~file[p].bad})

C6_Witness ==
    /\ InterruptedBeforeFirstBatch
    /\ Len(accepted) >= 1
    /\ imported = Len(accepted)
    /\ Gain = Len(accepted)

InBatch(p) == \E k \in 1..Len(batch) : batch[k].src = p
InCommits(p) ==
    \E i \in 1..Len(commits) : \E k \in 1..Len(commits[i]) :
        commits[i][k].src = p

\* Program points of the loop body that lie inside the processing of one
\* record (lines 148-195, the calls of line 193 left aside).
MidRecord == {"body", "add", "append", "count", "clear"}

\* C7: a cancellation never takes effect in the middle of processing one
\* record, and after it every record whose id was added to the dedup index
\* is in the pending batch or was handed to the committer, and is in the
\* table at Done.
C7_NoAcceptedLost ==
    /\ interrupted \notin MidRecord
    /\ interrupted # None => \A p \in Accepted : InBatch(p) \/ InCommits(p)
    /\ (pc = "Done" /\ interrupted # None)
       => \A p \in Accepted : \E r \in store : r.src = p

\* C8: no record is handed to the committer in two calls, and at Done the
\* pending batch is empty or has been handed to the committer.
C8_FlushExactlyOnce ==
    /\ \A i, j \in 1..Len(commits) :
          i # j => \A k \in 1..Len(commits[i]) : \A l \in 1..Len(commits[j]) :
                      commits[i][k].src # commits[j][l].src
    /\ pc = "Done" => (batch = <<>> \/ \E i \in 1..Len(commits) : commits[i] = batch)

\* Entries of the file the run has examined: every row the parser read,
\* except the one pulled when the limit check ended the loop.
Examined == pos - (IF limit_hit THEN 1 ELSE 0)

\* C9: the final summary is consistent: imported plus the skip counters
\* equals the number of records examined.
C9_SummaryConsistent ==
    pc = "Done"
    => imported + skipped_existing + skipped_invalid + skipped_adult
       + skipped_unpopular = Examined

\* C10: the imported count equals the number of rows the run committed to
\* the table.
C10_ImportedIsCommitted ==
    pc = "Done" => imported = Gain

\* The statements that follow a call of _bulk_create_batch.
AfterCommit == {"count", "final_count", "handler_count"}

\* The record of a batch has been dealt with: it is in the table, or it is
\* one the storage rejects and it is not in the table.
Settled(m) ==
    IF m.bad THEN ~\E r \in store : r.src = m.src
    ELSE \E r \in store : r.src = m.src /\ r.tmdb_id = m.tmdb_id

\* C11: when a batch commit has failed, the fallback loop has settled every
\* record before the one it is at, and when _bulk_create_batch returns
\* every record of the batch is settled: the acceptable ones are in the
\* table, whatever their place in the batch, and only the rejected ones
\* are left out.
C11_FallbackIsolates ==
    /\ pc = "fallback" => \A k \in 1..(fb - 1) : Settled(batch[k])
    /\ (pc \in AfterCommit /\ batch_failed)
       => \A k \in 1..Len(batch) : Settled(batch[k])

C11_Witness ==
    /\ pc \in AfterCommit /\ batch_failed
    /\ Len(batch) = 2
    /\ batch[1].bad /\ ~batch[2].bad
    /\ \E r \in store : r.src = batch[2].src
    /\ ~\E r \in store : r.src = batch[1].src

\* An entry that lacks a title (in both fields) or a release year in
\* 1888..2100.
InvalidEntry(e) ==
    /\ e.form = "object"
    /\ \/ ~(e.title \/ e.original_title)
       \/ parse_release_year(e.release_date) = NULL

\* The file position from which a row of the table was imported in the
\* current run (0 for the rows that were there before).
ImportedFrom == {r.src : r \in {x \in store : x.src > 0}}

\* The run ended with its summary after reading the file to its end.
ReadToEnd == pc = "Done" /\ ~limit_hit /\ interrupted = None

\* C12: required-field rejection.  No entry without a title or without a
\* valid release year is imported, and a run that read the file to its end
\* has counted each of them under skipped_invalid.
C12_InvalidCounted ==
    /\ \A p \in ImportedFrom : ~InvalidEntry(file[p])
    /\ ReadToEnd
       => skipped_invalid
            = Cardinality({k \in 1..Len(file) : InvalidEntry(file[k])})

\* A released row with fewer votes than --min-votes asks for.
LowVote(e) == e.status = "released" /\ e.vote_count < args.min_votes

\* Entries of the file that are well formed and whose id is neither in the
\* table at the start of the run nor carried by an earlier entry.
FreshGood == {k \in 1..Len(file) : WellFormed(file[k])} \ Repeats

\* C13: votes filter.  With min_votes > 0 a tabular row with fewer votes is
\* never imported and is counted under a filter reason of the summary; a
\* well-formed row with a new id and enough votes is imported.
C13_VotesFilter ==
    (file_format = "csv" /\ args.min_votes > 0)
    => /\ \A p \in ImportedFrom : ~LowVote(file[p])
       /\ ReadToEnd
          => /\ skipped_invalid + skipped_adult + skipped_unpopular
                  >= Cardinality({k \in 1..Len(file) : LowVote(file[k])})
             /\ FreshGood \subseteq ImportedFrom

\* C14: no record whose popularity is below min_popularity is imported,
\* whatever the format of the file.
C14_MinPopularity ==
    \A p \in ImportedFrom : file[p].popularity >= args.min_popularity

\* C15: in a run over a hierarchical file no line makes the run end with
\* an exception: undecodable text, a value that is not an object and an
\* object without required fields are passed over, and a run that is not
\* stopped by the limit reads the file to its end.
C15_MalformedNeverAborts ==
    file_format = "json" => pc # "Crashed"

\* C16: the hierarchical parser hands the loop only objects that have an
\* id and a title in one of the two fields.
C16_YieldsOnlyIdentified ==
    (file_format = "json" /\ pc = "body")
    => /\ movie_data.entry.form = "object"
       /\ movie_data.entry.id # NULL
       /\ movie_data.entry.title \/ movie_data.entry.original_title

\* A tabular row that is well formed but for its genres column, which no
\* decoder accepts.
Undecodable(e) ==
    /\ e.genres # "list"
    /\ [e EXCEPT !.genres = "list"] = GoodEntry(e.id)

\* C17: malformed-row resilience.  A tabular row whose genres column cannot
\* be decoded does not end the run, and when its id is new a run that read
\* the file to its end has imported it.
C17_UndecodableColumnKept ==
    file_format = "csv"
    => /\ pc # "Crashed"
       /\ ReadToEnd
          => \A k \in 1..Len(file) :
                (Undecodable(file[k]) /\ k \notin Repeats)
                => k \in ImportedFrom

\* Ids of the entries accepted in the current run.
AcceptedIds == {file[p].id : p \in Accepted}

\* The entry at position k has come to the dedup check of lines 178-182:
\* the parser yielded it, the limit check let it in, no filter rejected it
\* and it was converted to fields.
ReachedCheck(k) ==
    /\ k <= pos
    /\ ~(limit_hit /\ k = pos)
    /\ ParserOutcome(file_format, file[k], args) = "yield"
    /\ file_format = "json"
       => /\ ~(args.skip_adult /\ file[k].adult)
          /\ file[k].popularity >= args.min_popularity
          /\ movie_to_django_fields(file[k]) = "fields"

\* Entries that came to the dedup check and were not accepted.
Rejected == {k \in 1..pos : ReachedCheck(k)} \ Accepted

\* The loop is not between the pull of an entry and its acceptance, and
\* was not interrupted there.
BetweenChecks ==
    /\ pc \notin {"body", "add"}
    /\ interrupted \notin {"body", "add"}

\* C18: within one run no two accepted entries carry the same id and no
\* accepted entry carries an id seeded from the table; the index holds the
\* seeded ids and the ids of the accepted entries; every entry that came
\* to the check and was not accepted repeats a seeded id or the id of an
\* earlier accepted entry, and is counted under skipped_existing.
C18_DedupOncePerId ==
    /\ \A p, q \in Accepted : file[p].id = file[q].id => p = q
    /\ AcceptedIds \cap StoreIds(store0) = {}
    /\ AcceptedIds \subseteq existing_ids
    /\ existing_ids \subseteq StoreIds(store0) \cup AcceptedIds
    /\ pos > 0 => StoreIds(store0) \subseteq existing_ids
    /\ BetweenChecks
       => /\ skipped_existing = Cardinality(Rejected)
          /\ \A k \in Rejected :
                \/ file[k].id \in StoreIds(store0)
                \/ \E p \in Accepted : p < k /\ file[p].id = file[k].id

C18_Witness ==
    /\ pc = "Done"
    /\ skipped_existing >= 1
    /\ \E p \in Accepted : \E k \in Rejected :
          p < k /\ file[p].id = file[k].id

SameButProgress ==
    /\ run = 2 /\ Finished
    /\ prev.use_tqdm # use_tqdm
    /\ prev.args = args
    /\ prev.store0 = store0

\* C20: progress reporting never affects the result.  The two runs end in
\* the same way, with the same counters and the same table contents.
C20_ProgressIsAdvisory ==
    SameButProgress
    => /\ pc = prev.pc
       /\ imported = prev.imported
       /\ skipped_existing = prev.skipped_existing
       /\ skipped_invalid = prev.skipped_invalid
       /\ skipped_adult = prev.skipped_adult
       /\ skipped_unpopular = prev.skipped_unpopular
       /\ processed = prev.processed
       /\ Contents(store) = Contents(prev.store)

C20_Witness ==
    /\ SameButProgress
    /\ pc = "Done"
    /\ ~use_tqdm /\ shown >= 1
    /\ imported >= 2
    /\ skipped_existing + skipped_invalid + skipped_adult
         + skipped_unpopular = 0

\* The call of the helper fn under examination has returned.
Returned(fn) == call.fn = fn /\ call.state = "returned"

C27_GenreResolution ==
    Returned("parse_genres") =>
        LET Known(c) == c \in DOMAIN GENRE_MAP
            known == SelectSeq(call.arg.ids, Known)
            n == Len(known)
        IN  /\ n = 0 => call.out = <<>>
            /\ n > 0 => /\ Len(call.out) = 2 * n - 1
                        /\ \A i \in 1..n :
                              call.out[2 * i - 1] = GENRE_MAP[known[i]]
                        /\ \A i \in 1..(n - 1) : call.out[2 * i] = ", "

\* A list with two known codes around an unknown one.
C27_Witness ==
    /\ Returned("parse_genres")
    /\ call.arg.ids = <<878, 99999, 28>>
    /\ call.out = <<"Science Fiction", ", ", "Action">>

\* C26: every text field of the dict a parser returns for a record is no
\* longer than the max_length of the Movie column it is stored in.
C26_TextWithinColumn ==
    Returned("_row_to_movie") \/ Returned("movie_to_django_fields") =>
        call.out <= ColumnLimit[call.arg.field]

\* C24: the pending batch never holds more than batch_size records, and no
\* call of _bulk_create_batch receives more than batch_size records.
C24_BatchBounded ==
    /\ Len(batch) <= args.batch_size
    /\ \A i \in 1..Len(commits) : Len(commits[i]) <= args.batch_size

\* A batch of two records is handed over when it is full.
C24_Witness ==
    /\ args.batch_size >= 2
    /\ Len(commits) >= 1
    /\ Len(commits[1]) = args.batch_size

\* C25: every run reaches Done, where the summary is printed, whatever the
\* entries hold and however streaming ends.
C25_ReachesDone == <>(pc = "Done")

\* C29: every row that was in the table when the run started is in the
\* table, with the same fields, at every later point of the run.
C29_OnlyAdds == store0 \subseteq store

\* A run against a table that already held rows went through the
\* per-record fallback and added a row.
C29_Witness ==
    /\ pc = "Done"
    /\ store0 # {}
    /\ batch_failed
    /\ Gain >= 1

\* The records of all calls of _bulk_create_batch, in the order handed over.
RECURSIVE Flat(_)
Flat(ss) == IF ss = <<>> THEN <<>> ELSE Head(ss) \o Flat(Tail(ss))

\* C30: a record handed to _bulk_create_batch, and a row written in this
\* run, comes from the first entry with its id that reached the dedup
\* check; the records are handed over, and the rows are numbered, in the
\* order of the stream.
C30_FirstWins ==
    LET handed == Flat(commits) IN
    /\ \A i \in 1..Len(handed) : \A k \in 1..(handed[i].src - 1) :
          ReachedCheck(k) => file[k].id # handed[i].tmdb_id
    /\ \A r \in store : \A k \in 1..(r.src - 1) :
          ReachedCheck(k) => file[k].id # r.tmdb_id
    /\ \A i, j \in 1..Len(handed) : i < j => handed[i].src <= handed[j].src
    /\ \A i \in 1..Len(batch) : \A j \in 1..Len(batch) :
          i < j => batch[i].src < batch[j].src
    /\ \A r, q \in store : (0 < r.src /\ r.src < q.src) => r.pk < q.pk

C22_ExecuteRemovesAll ==
    (cleanup.pc = "Done" /\ cleanup.execute)
    => /\ DuplicateKeys(table, cleanup.by_title) = {}
       /\ \A k \in DuplicateKeys(table0, cleanup.by_title) :
             MoviesOf(table, k, cleanup.by_title)
                 = {Keep(MoviesOf(table0, k, cleanup.by_title), cleanup.keep)}

\* C23: without --execute the table is at every point of the command what
\* it was when the command started, in both modes.
C23_DryRun ==
    (cleanup.pc # "idle" /\ ~cleanup.execute) => table = table0

\* A dry run with --by-title over a table with duplicates has ended and
\* has counted rows it would delete.
C23_Witness ==
    /\ cleanup.pc = "Done"
    /\ ~cleanup.execute
    /\ cleanup.by_title
    /\ cleanup.deleted_count >= 1
    /\ DuplicateKeys(table, TRUE) # {}

====
